---- MODULE Spec2Model ----
(***************************************************************************)
(* A model of src/plugwise_collector.py: the PlugwiseCollector object, its *)
(* device client (fetch_xml_data), its two rotation state machines (daily  *)
(* power files, session meter file) and its scheduler (run_single_         *)
(* collection, run_continuous_collection, cleanup_on_shutdown).            *)
(*                                                                         *)
(* Python's None is modelled by the string "None" where the value is a     *)
(* string, by the date 0 where it is a date, and by ref = "none" where it  *)
(* is a file object.  Dates are the integers 1..MaxDay.                    *)
(***************************************************************************)
EXTENDS Integers, Sequences, FiniteSets, TLC

\* ------------------------------------------------------------------ bounds
\* Last calendar date the clock reaches.
MaxDay == 2
\* Collection cycles started over a whole behaviour (all processes).
MaxCycles == 2
\* Largest configured retry_attempts explored for one fetch.
MaxRetry == 3
\* Largest cumulative meter value (kWh) in a Smile document.
MaxKwh == 2
\* Largest power value (W) in a Smile document.
MaxWatts == 1
\* Longest measurement text in a Stretch document.
MaxText == 3
\* Appliances in an appliance registry document.
MaxAppliances == 2

\* ------------------------------------------------------- program constants
\* config["collection"]["retry_attempts"] of the default configuration.
DefaultRetryAttempts == 3
\* config["collection"]["timeout"] of the default configuration.
DefaultTimeout == 10

None == "None"
NoDate == 0
Days == 1..MaxDay

\* ------------------------------------------------------------ device client
\* What one requests.get may do: answer 200, answer another status, or raise
\* (connection error, timeout).
Responses == {"200", "500", "neterr"}

\* A fetch loop that does not return on a 200 answer (a variant of FetchLoop
\* used to test C8).
RECURSIVE FetchLoopContinues(_, _, _, _, _)
FetchLoopContinues(attempt, retry, resps, body, log) ==
  IF attempt >= retry
    THEN [text |-> None, log |-> log]
    ELSE LET r == resps[attempt + 1] IN
      IF r = "200"
        THEN FetchLoopContinues(attempt + 1, retry, resps, body, Append(log, "GET"))
      ELSE IF r = "500"
        THEN FetchLoopContinues(attempt + 1, retry, resps, body, Append(log, "GET"))
      ELSE FetchLoopContinues(attempt + 1, retry, resps, body,
                     IF attempt < retry - 1 THEN log \o <<"GET", "SLEEP">>
                                            ELSE Append(log, "GET"))

\* fetch_xml_data's for-loop from attempt `attempt` on.  resps[k] is what the
\* device does on the k-th request; log is the trace of the client's calls
\* (GET = requests.get, SLEEP = time.sleep(1)) made so far.
RECURSIVE FetchLoop(_, _, _, _, _)
FetchLoop(attempt, retry, resps, body, log) ==
  IF attempt >= retry
    THEN [text |-> None, log |-> log]
    ELSE LET r == resps[attempt + 1] IN
      IF r = "200"
        THEN [text |-> body, log |-> Append(log, "GET")]
      ELSE IF r = "500"
        THEN FetchLoop(attempt + 1, retry, resps, body, Append(log, "GET"))
      ELSE FetchLoop(attempt + 1, retry, resps, body,
                     IF attempt < retry - 1 THEN log \o <<"GET", "SLEEP">>
                                            ELSE Append(log, "GET"))

\* fetch_xml_data(device_name, endpoint): None at once for a disabled device,
\* else the retry loop.
fetch_xml_data(enabled, retry, resps, body) ==
  IF ~enabled THEN [text |-> None, log |-> <<>>]
              ELSE FetchLoop(0, retry, resps, body, <<>>)

\* -------------------------------------------------------------------- state
VARIABLES
  today,                       \* date.today(), the wall clock's calendar date
  power_files,                 \* disk: power_usage_<d>.csv, per date d
  session_files,               \* disk: meter_readings_session_<s>.csv, per start date s
  final_files,                 \* disk: meter_readings_<s>_<e>.csv, per <<s, e>>
  appliance_mapping,           \* self.appliance_mapping ("empty" = {})
  current_csv_file,            \* self.current_csv_file (with its writer)
  current_date,                \* self.current_date
  collect_meter_data,          \* self.collect_meter_data
  session_start_date,          \* self.session_start_date
  session_meter_file,          \* self.session_meter_file (with its writer)
  shutdown_requested,          \* self.shutdown_requested
  last_meter_collection_date,  \* self.last_meter_collection_date
  pc,                          \* the statement the process is at
  call,                        \* the public method running: none, single, continuous
  finalize_session,            \* run_single_collection's argument
  power_data,                  \* run_single_collection's local power_data
  meter_data,                  \* run_single_collection's local meter_data
  cycle,                       \* number of the running collection cycle
  failed,                      \* observation: devices whose power fetch failed in this
                               \* cycle (kept until the power write is over)
  requested,                   \* observation: endpoints the last power extraction
                               \* requested (kept until the next statement)
  callhist,                    \* observation: what the running call has done
  prochist,                    \* observation: what the process has done
  f_in,                        \* the inputs of one fetch (device client alone)
  f_out,                       \* the result of that fetch
  doc,                         \* the document given to one extractor (extractor alone)
  extracted                    \* what the extractor made of it

vars == <<today, power_files, session_files, final_files, appliance_mapping,
          current_csv_file, current_date, collect_meter_data, session_start_date,
          session_meter_file, shutdown_requested, last_meter_collection_date,
          pc, call, finalize_session, power_data, meter_data, cycle, failed,
          requested,
          callhist, prochist, f_in, f_out, doc, extracted>>

fsVars == <<power_files, session_files, final_files>>
objVars == <<appliance_mapping, current_csv_file, current_date, collect_meter_data,
             session_start_date, session_meter_file, shutdown_requested,
             last_meter_collection_date>>
localVars == <<finalize_session, power_data, meter_data, failed>>
histVars == <<callhist, prochist>>
fetchVars == <<f_in, f_out>>
extractVars == <<doc, extracted>>
pureVars == <<fetchVars, extractVars>>

\* ------------------------------------------------------------- files, handles
\* A file on disk: whether it exists, its header rows and its data rows.
NoFile == [exists |-> FALSE, hdr |-> 0, rows |-> {}]
\* A Python file object: ref is none (the attribute is None), open or closed;
\* name is the date in the file's name; hdr and rows are what was written to
\* the object and is still in its buffer.
NoHandle == [ref |-> "none", name |-> NoDate, hdr |-> 0, rows |-> {}]

\* open(filename, 'a'): creates the file when absent; nothing buffered yet.
OpenedFile(file) == [file EXCEPT !.exists = TRUE]
OpenedHandle(name) == [ref |-> "open", name |-> name, hdr |-> 0, rows |-> {}]
\* file.flush(): the buffer goes to disk.
FlushedFile(file, h) ==
  IF h.ref = "open"
    THEN [exists |-> TRUE, hdr |-> file.hdr + h.hdr, rows |-> file.rows \cup h.rows]
    ELSE file
FlushedHandle(h) == [h EXCEPT !.hdr = 0, !.rows = {}]
\* file.close(): flush, then closed; a no-op on a closed object.
ClosedHandle(h) == [FlushedHandle(h) EXCEPT !.ref = "closed"]

\* What a reader of the file sees once the open handle on it is flushed.
PowerContent(d) ==
  IF current_csv_file.ref = "open" /\ current_csv_file.name = d
    THEN FlushedFile(power_files[d], current_csv_file)
    ELSE power_files[d]
SessionContent(s) ==
  IF session_meter_file.ref = "open" /\ session_meter_file.name = s
    THEN FlushedFile(session_files[s], session_meter_file)
    ELSE session_files[s]

\* --------------------------------------------------- daily power rotation
\* A rotation test that ignores the date (a variant of NeedNewDailyFile used
\* to test C1).
NeedNewDailyFileNoDate(cd, cf, t) == cf.ref = "none"

\* get_daily_csv_file's test: a new file is needed.
NeedNewDailyFile(cd, cf, t) == cd # t \/ cf.ref = "none"

\* get_daily_csv_file(output_dir) at date t.  cf, cd, pf: current_csv_file,
\* current_date, the power files.  io = "open_fail": mkdir or open raises.
\* Yields the three after the call and whether it raised.
get_daily_csv_file(cf, cd, pf, t, io) ==
  IF NeedNewDailyFile(cd, cf, t)
    THEN LET pf1 == IF cf.ref = "open"
                      THEN [pf EXCEPT ![cf.name] = FlushedFile(@, cf)] ELSE pf
             cf1 == IF cf.ref = "none" THEN cf ELSE ClosedHandle(cf)
         IN IF io = "open_fail"
              THEN [cf |-> cf1, cd |-> cd, pf |-> pf1, raised |-> TRUE]
              ELSE LET file_exists == pf1[t].exists
                       h == [OpenedHandle(t) EXCEPT
                               !.hdr = IF file_exists THEN 0 ELSE 1]
                   IN [cf |-> h, cd |-> t,
                       pf |-> [pf1 EXCEPT ![t] = OpenedFile(@)], raised |-> FALSE]
    ELSE [cf |-> cf, cd |-> cd, pf |-> pf, raised |-> FALSE]

\* save_to_daily_csv's csv_data: one row for the Smile (main_meter), the rows
\* of the Stretch appliances (kept as one group), each with power_data's
\* timestamp.
CsvData(pd, cyc) ==
  {[cyc |-> cyc, ts |-> pd.timestamp, dev |-> d] : d \in pd.devices}

\* save_to_daily_csv(power_data, output_dir) at date t.  writerows raises on a
\* closed file object (ValueError) and when io = "write_fail"; it does not
\* flush.
save_to_daily_csv(cf, cd, pf, pd, cyc, t, io) ==
  LET g == get_daily_csv_file(cf, cd, pf, t, io)
      csv_data == CsvData(pd, cyc)
  IN IF g.raised THEN g
     ELSE IF csv_data = {} THEN g
     ELSE IF g.cf.ref = "closed" \/ io = "write_fail"
       THEN [g EXCEPT !.raised = TRUE]
     ELSE [g EXCEPT !.cf.rows = @ \cup csv_data]

\* ------------------------------------------------- session meter rotation
\* get_session_meter_file's test: the session file is to be opened.
NeedSessionFile(smf, t) == smf.ref = "none"

\* A session start date taken anew at every call (a variant of SessionStart
\* used to test C4).
SessionStartToday(ssd, t) == t

\* The date get_session_meter_file names the session by.
SessionStart(ssd, t) == IF ssd = NoDate THEN t ELSE ssd

\* get_session_meter_file(output_dir) at date t.  ssd, smf, sf:
\* session_start_date, session_meter_file, the session files.
get_session_meter_file(ssd, smf, sf, t, io) ==
  LET ssd1 == SessionStart(ssd, t) IN
  IF NeedSessionFile(smf, t)
    THEN IF io = "open_fail"
           THEN [ssd |-> ssd1, smf |-> smf, sf |-> sf, raised |-> TRUE]
           ELSE LET file_exists == sf[ssd1].exists
                    h == [OpenedHandle(ssd1) EXCEPT
                            !.hdr = IF file_exists THEN 0 ELSE 1]
                IN [ssd |-> ssd1, smf |-> h,
                    sf |-> [sf EXCEPT ![ssd1] = OpenedFile(@)], raised |-> FALSE]
    ELSE [ssd |-> ssd1, smf |-> smf, sf |-> sf, raised |-> FALSE]

\* save_meter_data_to_session_csv(meter_data, output_dir) at date t: one row,
\* flushed at once; a failing writerow or flush is caught (the row is lost).
save_meter_data_to_session_csv(ssd, smf, sf, md, cyc, t, io) ==
  LET g == get_session_meter_file(ssd, smf, sf, t, io)
      row == [cyc |-> cyc, date |-> md.collection_date]
  IN IF g.raised THEN g
     ELSE IF g.smf.ref # "open" \/ io = "write_fail" THEN g
     ELSE LET h == [g.smf EXCEPT !.rows = @ \cup {row}]
          IN [g EXCEPT !.sf[h.name] = FlushedFile(@, h), !.smf = FlushedHandle(h)]

\* A test of the provisional file's existence that always succeeds (a variant
\* of SessionFileExists used to test C3).
SessionFileAssumed(sf, ssd) == TRUE

\* finalize_session_meter_file's test: os.path.exists(session_filename).
SessionFileExists(sf, ssd) == sf[ssd].exists

\* A final name that takes the start date as the end date too (a variant of
\* FinalName used to test C2).
FinalNameStartOnly(ssd, t) == <<ssd, ssd>>

\* finalize_session_meter_file's final_filename: meter_readings_<ssd>_<t>.csv.
FinalName(ssd, t) == <<ssd, t>>

\* finalize_session_meter_file(output_dir) at date t.  ff: the final files.
\* os.rename replaces an existing target; io = "rename_fail": it raises, which
\* is caught.  result: the return value (None, final or session file name).
finalize_session_meter_file(ssd, smf, sf, ff, t, io) ==
  IF ssd # NoDate
    THEN LET sf1 == IF smf.ref = "open"
                      THEN [sf EXCEPT ![smf.name] = FlushedFile(@, smf)] ELSE sf
         IN IF SessionFileExists(sf1, ssd)
              THEN IF io = "rename_fail"
                     THEN [smf |-> NoHandle, sf |-> sf1, ff |-> ff, result |-> "session"]
                     ELSE [smf |-> NoHandle, sf |-> [sf1 EXCEPT ![ssd] = NoFile],
                           ff |-> [ff EXCEPT ![FinalName(ssd, t)] = sf1[ssd]],
                           result |-> "final"]
              ELSE [smf |-> NoHandle, sf |-> sf1, ff |-> ff, result |-> None]
    ELSE [smf |-> smf, sf |-> sf, ff |-> ff, result |-> None]

\* should_collect_meter_data_today's test.
ShouldCollectMeter(last, t) == last # t

\* ------------------------------------------------------------- extraction
\* The documents a device may serve on a 200 answer, by what the extractor
\* makes of them.
ApplianceDocs == {"malformed", "appliances"}
ModuleDocs == {"malformed", "modules"}
DomainDocs == {"malformed", "domain_objects"}

RespSeqs(n) == [1..n -> Responses]

\* What a device does on the requests of one fetch of a collection cycle: the
\* same on every request, or two failures and then an answer.
CycleResps ==
  {[i \in 1..DefaultRetryAttempts |-> r] : r \in Responses}
    \cup {[i \in 1..DefaultRetryAttempts |->
             IF i = DefaultRetryAttempts THEN "200"
             ELSE IF i = 1 THEN "500" ELSE "neterr"]}

\* What fetch_xml_data may return in a collection cycle for an endpoint that
\* serves one of docs.
Fetched(docs) ==
  {fetch_xml_data(TRUE, DefaultRetryAttempts, r, d).text : r \in CycleResps, d \in docs}

\* build_appliance_mapping, given what the fetch of /core/appliances returned.
build_appliance_mapping(text) ==
  IF text = "appliances" THEN "built" ELSE "empty"

\* extract_stretch_power, given what the fetch of /core/modules returned: None
\* when the fetch failed, an empty dict when the document does not parse or no
\* meter resolves through the mapping.
extract_stretch_power(text, mapping) ==
  IF text = None THEN None
  ELSE IF text = "modules" /\ mapping = "built" THEN "data"
  ELSE "empty"

\* extract_smile_power and extract_smile_meter_data, given what the fetch of
\* /core/domain_objects returned.
extract_smile(text) ==
  IF text = "domain_objects" THEN "data" ELSE None

\* ---------------------------------------------------------------- history
\* Observations of the run; no guard reads them.
\* callhist, of the running public call:
\*   cleanups     cleanup_on_shutdown calls it has made
\*   interrupted  a KeyboardInterrupt was raised in it
\*   errored      another exception left one of its cycles
\* prochist, of the running process:
\*   fin          what finalize_session_meter_file returned ("final", "session"
\*                or "None") when a call of it is the last thing the process
\*                did to its session, "again" when it returned None on a call
\*                that followed a successful one; "unset" otherwise
\*   opened       the process has opened (created) a session file
\*   start        the date on which the process started
\*   base         the number of collection cycles run before the process
\*                started (its own cycles are those numbered above it)
NoCallHist == [cleanups |-> 0, interrupted |-> FALSE, errored |-> FALSE]
NoProcHist == [fin |-> "unset", opened |-> FALSE, start |-> NoDate, base |-> 0]
\* prochist of a process that starts on date t.
StartedProcHist(t) == [NoProcHist EXCEPT !.start = t]

\* ------------------------------------------------------------------- Init
\* PlugwiseCollector.__init__, then main's collect_meter_data = not no_meter.
NewObject(meter) ==
  /\ appliance_mapping' = "empty"
  /\ current_csv_file' = NoHandle
  /\ current_date' = NoDate
  /\ collect_meter_data' = meter
  /\ session_start_date' = NoDate
  /\ session_meter_file' = NoHandle
  /\ shutdown_requested' = FALSE
  /\ last_meter_collection_date' = NoDate

NoPowerData == [timestamp |-> NoDate, devices |-> {}]
NoMeterData == [collection_date |-> NoDate, smile |-> None]
NoFetch == [enabled |-> TRUE, retry |-> 0, resps |-> <<>>, body |-> None]
NotFetched == [text |-> "unset", log |-> <<>>]
NoDoc == [kind |-> "none"]
NotExtracted == [done |-> FALSE]

\* The first process has constructed its collector; the output directory is
\* empty.
InitCollector ==
  /\ today = 1
  /\ power_files = [d \in Days |-> NoFile]
  /\ session_files = [d \in Days |-> NoFile]
  /\ final_files = [se \in Days \X Days |-> NoFile]
  /\ appliance_mapping = "empty"
  /\ current_csv_file = NoHandle
  /\ current_date = NoDate
  /\ collect_meter_data \in BOOLEAN
  /\ session_start_date = NoDate
  /\ session_meter_file = NoHandle
  /\ shutdown_requested = FALSE
  /\ last_meter_collection_date = NoDate
  /\ pc = "idle"
  /\ call = "none"
  /\ finalize_session = FALSE
  /\ power_data = NoPowerData
  /\ meter_data = NoMeterData
  /\ cycle = 0
  /\ failed = {}
  /\ requested = {}
  /\ callhist = NoCallHist
  /\ prochist = StartedProcHist(1)

Init ==
  /\ InitCollector
  /\ f_in = NoFetch
  /\ f_out = NotFetched
  /\ doc = NoDoc
  /\ extracted = NotExtracted

\* ---------------------------------------------------------------- actions
CyclePcs == {"extract_power_measurements", "save_to_daily_csv",
             "should_collect_meter_data_today", "collect_daily_meter_data",
             "save_meter_data_to_session_csv", "finalize_session"}
LoopPcs == CyclePcs \cup {"while", "sleep"}

\* run_single_collection's locals are gone once it is left.
DropLocals ==
  /\ finalize_session' = FALSE
  /\ power_data' = NoPowerData
  /\ meter_data' = NoMeterData
  /\ failed' = {}

\* run_single_collection returns: to the loop's sleep, or to its caller.
ReturnFromCycle ==
  /\ pc' = IF call = "continuous" THEN "sleep" ELSE "done"
  /\ DropLocals

\* An except clause that returns without the finally clause (a variant of
\* AfterException used to test C5).
AfterExceptionNoFinally(c) == IF c = "continuous" THEN "done" ELSE "uncaught"

\* Where control goes when an exception leaves run_single_collection:
\* run_continuous_collection's except clause catches it, outside the while
\* loop, and goes on to the finally clause; main does not catch it.
AfterException(c) == IF c = "continuous" THEN "cleanup_on_shutdown" ELSE "uncaught"

\* An exception leaves run_single_collection.
RaiseFromCycle ==
  /\ pc' = AfterException(call)
  /\ DropLocals
  /\ callhist' = [callhist EXCEPT !.errored = TRUE]

\* The statements that read date.today() (or datetime.now()).
DateReaders == {"extract_power_measurements", "save_to_daily_csv",
                "should_collect_meter_data_today", "collect_daily_meter_data",
                "save_meter_data_to_session_csv", "finalize_session",
                "cleanup_on_shutdown", "idle"}

\* The calendar date changes.  The process sees the date only where it reads
\* it, so a change elsewhere is the change just before the next read.
Tick ==
  /\ today < MaxDay
  /\ pc \in DateReaders
  /\ today' = today + 1
  /\ UNCHANGED <<fsVars, objVars, pc, call, localVars, cycle, histVars,
                 requested, pureVars>>

\* collector.run_single_collection(output, finalize_session) is called.
RunSingle(fin) ==
  /\ pc = "idle"
  /\ cycle < MaxCycles
  /\ finalize_session' = fin
  /\ call' = "single"
  /\ pc' = "extract_power_measurements"
  /\ cycle' = cycle + 1
  /\ UNCHANGED <<today, fsVars, objVars, power_data, meter_data, failed,
                 histVars, requested, pureVars>>

\* main, single-shot:
\*   collector.run_single_collection(args.output, finalize_session=True)
CallRunSingle == RunSingle(TRUE)

\* main, continuous: collector.run_continuous_collection(interval, output).
CallRunContinuous ==
  /\ pc = "idle"
  /\ call' = "continuous"
  /\ pc' = "while"
  /\ UNCHANGED <<today, fsVars, objVars, localVars, cycle, histVars,
                 requested, pureVars>>

\* while not self.shutdown_requested: self.run_single_collection(output_dir)
While ==
  /\ pc = "while"
  /\ \/ /\ shutdown_requested
        /\ pc' = "cleanup_on_shutdown"
        /\ UNCHANGED cycle
     \/ /\ ~shutdown_requested
        /\ cycle < MaxCycles
        /\ pc' = "extract_power_measurements"
        /\ cycle' = cycle + 1
  /\ UNCHANGED <<today, fsVars, objVars, call, localVars, histVars,
                 requested, pureVars>>

\* time.sleep(interval)
Sleep ==
  /\ pc = "sleep"
  /\ pc' = "while"
  /\ requested' = {}
  /\ UNCHANGED <<today, fsVars, objVars, call, localVars, cycle, histVars,
                 pureVars>>

\* Ctrl+C: a KeyboardInterrupt is raised while a collection runs.  Inside
\* run_continuous_collection's try it is caught; in single-shot mode it is not.
KeyboardInterrupt ==
  /\ \/ /\ call = "continuous"
        /\ pc \in LoopPcs
        /\ shutdown_requested' = TRUE
        /\ pc' = "cleanup_on_shutdown"
     \/ /\ call = "single"
        /\ pc \in CyclePcs
        /\ pc' = "uncaught"
        /\ UNCHANGED shutdown_requested
  /\ DropLocals
  /\ callhist' = [callhist EXCEPT !.interrupted = TRUE]
  /\ requested' = {}
  /\ UNCHANGED <<today, fsVars, appliance_mapping, current_csv_file, current_date,
                 collect_meter_data, session_start_date, session_meter_file,
                 last_meter_collection_date, call, cycle, prochist,
                 pureVars>>

\* A store that keeps whatever the extraction returned (a variant of
\* StoreDevice used to test C10).
StoreDeviceAlways(pd, dev, data) == [pd EXCEPT !.devices = @ \cup {dev}]

\* if stretch_data: power_data["devices"]["stretch"] = stretch_data (and so
\* for the Smile): None and the empty dict are not stored.
StoreDevice(pd, dev, data) ==
  IF data = "data" THEN [pd EXCEPT !.devices = @ \cup {dev}] ELSE pd

\* The endpoints one call of extract_power_measurements requests: the
\* appliance registry when the cached mapping is empty, then the Stretch's
\* modules and the Smile's domain objects.
RequestedEndpoints(mapping) ==
  (IF mapping = "empty" THEN {"/core/appliances"} ELSE {})
    \cup {"/core/modules", "/core/domain_objects"}

\* A mapping that is built anew in every cycle (a variant of MappingForCycle
\* used to test C20).
MappingRebuilt(mapping, text) == build_appliance_mapping(text)

\* The mapping extract_power_measurements goes on with: built from the
\* registry when the cached one is empty.  text: what fetching /core/appliances
\* returns.
MappingForCycle(mapping, text) ==
  IF mapping = "empty" THEN build_appliance_mapping(text) ELSE mapping

\* extract_power_measurements.  am, sm, dm: what fetching /core/appliances,
\* /core/modules and /core/domain_objects returns.  Yields the mapping and
\* power_data.
extract_power_measurements(mapping, t, am, sm, dm) ==
  LET mapping1 == MappingForCycle(mapping, am)
      pd0 == [NoPowerData EXCEPT !.timestamp = t]
      pd1 == StoreDevice(pd0, "stretch", extract_stretch_power(sm, mapping1))
      pd2 == StoreDevice(pd1, "smile", extract_smile(dm))
  IN [mapping |-> mapping1, power_data |-> pd2]

\* run_single_collection: power_data = self.extract_power_measurements(), and
\* the test of power_data["devices"].
ExtractPowerMeasurements ==
  /\ pc = "extract_power_measurements"
  /\ \E am \in IF "/core/appliances" \in RequestedEndpoints(appliance_mapping)
                  THEN Fetched(ApplianceDocs) ELSE {None},
        sm \in Fetched(ModuleDocs), dm \in Fetched(DomainDocs) :
       LET e == extract_power_measurements(appliance_mapping, today, am, sm, dm)
       IN /\ appliance_mapping' = e.mapping
          /\ IF e.power_data.devices # {}
               THEN /\ pc' = "save_to_daily_csv"
                    /\ power_data' = e.power_data
                    /\ failed' = {"stretch" : x \in {1} \cap (IF sm = None THEN {1} ELSE {})}
                                   \cup {"smile" : x \in {1} \cap (IF dm = None THEN {1} ELSE {})}
                    /\ UNCHANGED <<finalize_session, meter_data>>
               ELSE ReturnFromCycle
  /\ requested' = RequestedEndpoints(appliance_mapping)
  /\ UNCHANGED <<today, fsVars, current_csv_file, current_date, collect_meter_data,
                 session_start_date, session_meter_file, shutdown_requested,
                 last_meter_collection_date, call, cycle, histVars, pureVars>>

\* run_single_collection: self.save_to_daily_csv(power_data, output_dir)
SaveToDailyCsv ==
  /\ pc = "save_to_daily_csv"
  /\ \E io \in {"ok", "open_fail", "write_fail"} :
       LET r == save_to_daily_csv(current_csv_file, current_date, power_files,
                                  power_data, cycle, today, io)
       IN /\ current_csv_file' = r.cf
          /\ current_date' = r.cd
          /\ power_files' = r.pf
          /\ IF r.raised
               THEN RaiseFromCycle
               ELSE /\ pc' = "should_collect_meter_data_today"
                    /\ power_data' = NoPowerData
                    /\ UNCHANGED <<finalize_session, meter_data, failed, callhist>>
  /\ requested' = {}
  /\ UNCHANGED <<today, session_files, final_files, appliance_mapping,
                 collect_meter_data, session_start_date, session_meter_file,
                 shutdown_requested, last_meter_collection_date, call, cycle,
                 prochist, pureVars>>

\* run_single_collection:
\*   if self.collect_meter_data and self.should_collect_meter_data_today():
\* should_collect_meter_data_today records today before anything is collected.
ShouldCollectMeterDataToday ==
  /\ pc = "should_collect_meter_data_today"
  /\ IF collect_meter_data /\ ShouldCollectMeter(last_meter_collection_date, today)
       THEN /\ last_meter_collection_date' = today
            /\ pc' = "collect_daily_meter_data"
       ELSE /\ UNCHANGED last_meter_collection_date
            /\ pc' = "finalize_session"
  /\ failed' = {}
  /\ UNCHANGED <<today, fsVars, appliance_mapping, current_csv_file, current_date,
                 collect_meter_data, session_start_date, session_meter_file,
                 shutdown_requested, call, finalize_session, power_data,
                 meter_data, cycle, histVars, requested, pureVars>>

\* collect_daily_meter_data, then run_single_collection's test of
\* meter_data["devices"].
CollectDailyMeterData ==
  /\ pc = "collect_daily_meter_data"
  /\ \E dm \in Fetched(DomainDocs) :
       LET md == [collection_date |-> today, smile |-> extract_smile(dm)]
       IN /\ meter_data' = md
          /\ pc' = IF md.smile = "data" THEN "save_meter_data_to_session_csv"
                                        ELSE "finalize_session"
  /\ UNCHANGED <<today, fsVars, objVars, call, finalize_session, power_data,
                 failed, cycle, histVars, requested, pureVars>>

\* run_single_collection: self.save_meter_data_to_session_csv(meter_data, output_dir)
SaveMeterDataToSessionCsv ==
  /\ pc = "save_meter_data_to_session_csv"
  /\ \E io \in {"ok", "open_fail", "write_fail"} :
       LET r == save_meter_data_to_session_csv(session_start_date,
                  session_meter_file, session_files, meter_data, cycle, today, io)
       IN /\ session_start_date' = r.ssd
          /\ session_meter_file' = r.smf
          /\ session_files' = r.sf
          /\ prochist' = [prochist EXCEPT
                            !.fin = "unset",
                            !.opened = @ \/ r.smf.ref = "open"]
          /\ IF r.raised
               THEN RaiseFromCycle
               ELSE /\ pc' = "finalize_session"
                    /\ meter_data' = NoMeterData
                    /\ UNCHANGED <<finalize_session, power_data, failed, callhist>>
  /\ UNCHANGED <<today, power_files, final_files, appliance_mapping,
                 current_csv_file, current_date, collect_meter_data,
                 shutdown_requested, last_meter_collection_date, call, cycle,
                 requested, pureVars>>

\* prochist after a call of finalize_session_meter_file that returned r.
FinHist(h, r) ==
  [h EXCEPT !.fin = IF h.fin \in {"final", "again"} /\ r.result = None
                      THEN "again" ELSE r.result]

\* run_single_collection:
\*   if finalize_session and output_dir and self.collect_meter_data:
\*       self.finalize_session_meter_file(output_dir)
\*   return power_data
FinalizeSession ==
  /\ pc = "finalize_session"
  /\ IF finalize_session /\ collect_meter_data
       THEN \E io \in {"ok", "rename_fail"} :
              LET r == finalize_session_meter_file(session_start_date,
                         session_meter_file, session_files, final_files, today, io)
              IN /\ session_meter_file' = r.smf
                 /\ session_files' = r.sf
                 /\ final_files' = r.ff
                 /\ prochist' = FinHist(prochist, r)
       ELSE UNCHANGED <<session_meter_file, session_files, final_files, prochist>>
  /\ ReturnFromCycle
  /\ UNCHANGED <<today, power_files, appliance_mapping, current_csv_file,
                 current_date, collect_meter_data, session_start_date,
                 shutdown_requested, last_meter_collection_date, call, cycle,
                 callhist, requested, pureVars>>

\* cleanup_on_shutdown's first part: close the power CSV file object when the
\* attribute holds one.  Yields current_csv_file and the power files.
ClosePowerFile(cf, pf) ==
  [cf |-> IF cf.ref = "none" THEN cf ELSE ClosedHandle(cf),
   pf |-> IF cf.ref = "open" THEN [pf EXCEPT ![cf.name] = FlushedFile(@, cf)] ELSE pf]

\* run_continuous_collection's finally clause: cleanup_on_shutdown(output_dir),
\* after which run_continuous_collection returns.
CleanupOnShutdown ==
  /\ pc = "cleanup_on_shutdown"
  /\ LET c == ClosePowerFile(current_csv_file, power_files)
     IN /\ current_csv_file' = c.cf
        /\ power_files' = c.pf
  /\ IF collect_meter_data
       THEN \E io \in {"ok", "rename_fail"} :
              LET r == finalize_session_meter_file(session_start_date,
                         session_meter_file, session_files, final_files, today, io)
              IN /\ session_meter_file' = r.smf
                 /\ session_files' = r.sf
                 /\ final_files' = r.ff
                 /\ prochist' = FinHist(prochist, r)
       ELSE UNCHANGED <<session_meter_file, session_files, final_files, prochist>>
  /\ callhist' = [callhist EXCEPT !.cleanups = @ + 1]
  /\ pc' = "done"
  /\ UNCHANGED <<today, appliance_mapping, current_date, collect_meter_data,
                 session_start_date, shutdown_requested,
                 last_meter_collection_date, call, localVars, cycle,
                 requested, pureVars>>

\* A caller of the class other than main goes on using the collector.
CallAgain ==
  /\ pc = "done"
  /\ pc' = "idle"
  /\ call' = "none"
  /\ callhist' = NoCallHist
  /\ requested' = {}
  /\ UNCHANGED <<today, fsVars, objVars, localVars, cycle, prochist, pureVars>>

\* Such a caller calls run_single_collection(output_dir) with the default
\* finalize_session=False.
CallRunSingleNoFinalize == RunSingle(FALSE)

\* Such a caller calls finalize_session_meter_file(output_dir) itself.
CallFinalize ==
  /\ pc = "idle"
  /\ \E io \in {"ok", "rename_fail"} :
       LET r == finalize_session_meter_file(session_start_date,
                  session_meter_file, session_files, final_files, today, io)
       IN /\ session_meter_file' = r.smf
          /\ session_files' = r.sf
          /\ final_files' = r.ff
          /\ prochist' = FinHist(prochist, r)
  /\ UNCHANGED <<today, power_files, appliance_mapping, current_csv_file,
                 current_date, collect_meter_data, session_start_date,
                 shutdown_requested, last_meter_collection_date, pc, call,
                 localVars, cycle, callhist, requested, pureVars>>

\* The process ends: main returned, or an exception reached the top level.
\* The interpreter closes the file objects still open, which flushes them;
\* the collector object is gone.
Exit ==
  /\ pc \in {"done", "uncaught"}
  /\ power_files' = ClosePowerFile(current_csv_file, power_files).pf
  /\ session_files' = IF session_meter_file.ref = "open"
                        THEN [session_files EXCEPT ![session_meter_file.name] =
                                FlushedFile(@, session_meter_file)]
                        ELSE session_files
  /\ NewObject(FALSE)
  /\ pc' = "exited"
  /\ call' = "none"
  /\ callhist' = NoCallHist
  /\ prochist' = NoProcHist
  /\ requested' = {}
  /\ UNCHANGED <<today, final_files, localVars, cycle, pureVars>>

\* The program is started again: main constructs a new collector and sets
\* collect_meter_data = not args.no_meter.
NewProcess ==
  /\ pc = "exited"
  /\ collect_meter_data' \in BOOLEAN
  /\ pc' = "idle"
  /\ prochist' = [StartedProcHist(today) EXCEPT !.base = cycle]
  /\ UNCHANGED <<today, fsVars, appliance_mapping, current_csv_file, current_date,
                 session_start_date, session_meter_file, shutdown_requested,
                 last_meter_collection_date, call, localVars, cycle, callhist,
                 requested, pureVars>>

Next ==
  \/ Tick
  \/ CallRunSingle
  \/ CallRunContinuous
  \/ While
  \/ Sleep
  \/ KeyboardInterrupt
  \/ ExtractPowerMeasurements
  \/ SaveToDailyCsv
  \/ ShouldCollectMeterDataToday
  \/ CollectDailyMeterData
  \/ SaveMeterDataToSessionCsv
  \/ FinalizeSession
  \/ CleanupOnShutdown
  \/ Exit
  \/ NewProcess

\* The program: main runs one single-shot collection or the continuous loop.
Spec == Init /\ [][Next]_vars

\* The collector used as an object: its public methods called one after
\* another, as a test of the class does.
NextApi == Next \/ CallAgain \/ CallRunSingleNoFinalize \/ CallFinalize

SpecApi == Init /\ [][NextApi]_vars

\* ------------------------------------------------- the device client alone
\* One call of fetch_xml_data, for every configuration (device enabled or not,
\* retry_attempts), every behaviour of the device on the requests and both a
\* document and an empty body as the 200 answer's text.
FetchInputs ==
  [enabled : BOOLEAN, retry : 0..MaxRetry, resps : RespSeqs(MaxRetry),
   body : {"xml", ""}]

InitFetch ==
  /\ InitCollector
  /\ collect_meter_data = TRUE
  /\ f_in \in FetchInputs
  /\ f_out = NotFetched
  /\ doc = NoDoc
  /\ extracted = NotExtracted

FetchXmlData ==
  /\ f_out = NotFetched
  /\ f_out' = fetch_xml_data(f_in.enabled, f_in.retry, f_in.resps, f_in.body)
  /\ UNCHANGED <<today, fsVars, objVars, pc, call, localVars, cycle, histVars,
                 requested, f_in, extractVars>>

SpecFetch == InitFetch /\ [][FetchXmlData]_vars

\* ------------------------------------------------------------------ claims
\* The requests (GET) in a fetch's trace, and the place of the first 200
\* answer among the first n answers (0: none).
C8_Gets(log) == Cardinality({i \in 1..Len(log) : log[i] = "GET"})
C8_FirstOk(resps, n) ==
  IF \E i \in 1..n : resps[i] = "200"
    THEN CHOOSE i \in 1..n : resps[i] = "200" /\ \A j \in 1..(i - 1) : resps[j] # "200"
    ELSE 0

\* C8: one call of fetch issues at most retry_attempts GET requests; it issues
\* no request after the first 200 answer, whose body it returns; when every
\* attempt fails (network error or another status) it returns None.
C8_FetchBounded ==
  f_out # NotFetched =>
    LET k == C8_FirstOk(f_in.resps, f_in.retry) IN
      /\ C8_Gets(f_out.log) <= f_in.retry
      /\ (f_in.enabled /\ k > 0) => C8_Gets(f_out.log) = k /\ f_out.text = f_in.body
      /\ (f_in.enabled /\ k = 0) => C8_Gets(f_out.log) = f_in.retry /\ f_out.text = None
      /\ ~f_in.enabled => C8_Gets(f_out.log) = 0 /\ f_out.text = None

\* C8 witness: a fetch that got its 200 answer at the second of three
\* attempts, and one whose three attempts all failed, are both reached; this
\* names the first.
C8_Witness ==
  /\ f_out # NotFetched
  /\ f_in.enabled /\ f_in.retry = 3
  /\ f_in.resps[1] = "500" /\ f_in.resps[2] = "200"
  /\ f_out.text = "xml"

\* C9 (as claimed): the client sleeps between every two consecutive attempts,
\* whether the earlier one failed by network error or by a non-200 status,
\* and does not sleep after the last attempt.
C9_SleepBetweenAttempts ==
  f_out # NotFetched =>
    /\ \A i \in 1..(Len(f_out.log) - 1) :
         ~(f_out.log[i] = "GET" /\ f_out.log[i + 1] = "GET")
    /\ Len(f_out.log) > 0 => f_out.log[Len(f_out.log)] = "GET"

\* Every power file that exists holds exactly one header row (once the open
\* handle on it is flushed), and only an existing file holds rows.
C1_OneHeader ==
  \A d \in Days :
    /\ PowerContent(d).exists => PowerContent(d).hdr = 1
    /\ PowerContent(d).rows # {} => PowerContent(d).exists

\* A step changes the content of no power file but today's; a successful
\* power write leaves the open handle on today's file, every other file
\* closed with all that was written to it on disk.
C1_WritesTodayOnly ==
  /\ \A d \in Days : PowerContent(d)' # PowerContent(d) => d = today'
  /\ (pc = "save_to_daily_csv" /\ pc' = "should_collect_meter_data_today") =>
       /\ current_csv_file'.ref = "open"
       /\ current_csv_file'.name = today
       /\ CsvData(power_data, cycle) \subseteq PowerContent(today)'.rows
       /\ \A d \in Days \ {today} : power_files'[d] = PowerContent(d)

\* C1: daily power rotation.  Power writes on date D and then on date D+1 go
\* to two distinct files, power_usage_D.csv and power_usage_{D+1}.csv; each
\* file holds exactly one header row; the D file is closed at the first write
\* of D+1 and is never reopened or written afterwards.
C1_DailyRotation == []C1_OneHeader /\ [][C1_WritesTodayOnly]_vars

\* C1 witness: the second cycle of a continuous run has written on day 2, in
\* a process that wrote on day 1 (its meter gate last passed on day 1); both
\* files hold rows.
C1_Witness ==
  /\ call = "continuous" /\ cycle = 2 /\ today = 2
  /\ pc = "should_collect_meter_data_today"
  /\ last_meter_collection_date = 1
  /\ current_csv_file.ref = "open" /\ current_csv_file.name = 2
  /\ power_files[1].rows # {} /\ power_files[1].hdr = 1
  /\ PowerContent(2).rows # {} /\ PowerContent(2).hdr = 1

\* A step that finalizes an open session: the collector's handle on the
\* session file goes from open to None while the process lives on.
C2_FinalizesOpenSession ==
  /\ session_meter_file.ref = "open"
  /\ session_meter_file'.ref = "none"
  /\ pc' # "exited"

\* C2: finalizing a meter session opened with start date S when the calendar
\* date is E closes the session handle and renames
\* meter_readings_session_S.csv to meter_readings_S_E.csv: afterwards no
\* provisional file for S exists and the final file holds the header and every
\* row written during the session.  (os.rename raising is the one exception:
\* finalize then returns the provisional file's name, and that file keeps
\* every row.)
C2_FinalizeRenames ==
  [][C2_FinalizesOpenSession =>
       LET S == session_meter_file.name
           E == today
       IN /\ S = session_start_date
          /\ session_meter_file' = NoHandle
          /\ prochist'.fin \in {"final", "session"}
          /\ prochist'.fin = "final" =>
               /\ ~session_files'[S].exists
               /\ final_files'[<<S, E>>] = SessionContent(S)
               /\ final_files'[<<S, E>>].exists
               /\ final_files'[<<S, E>>].hdr = 1
               /\ \A se \in (Days \X Days) \ {<<S, E>>} :
                    final_files'[se] = final_files[se]
          /\ prochist'.fin = "session" =>
               /\ session_files'[S] = SessionContent(S)
               /\ final_files' = final_files]_vars

\* C2 witness: a session opened on day 1 was finalized on day 2; the final
\* file meter_readings_1_2.csv holds its rows and the provisional file is
\* gone.
C2_Witness ==
  /\ prochist.fin = "final"
  /\ session_start_date = 1 /\ today = 2
  /\ session_meter_file = NoHandle
  /\ ~session_files[1].exists
  /\ final_files[<<1, 2>>].exists
  /\ final_files[<<1, 2>>].rows # {}

\* A step in which finalize_session_meter_file is called and returns: from
\* run_single_collection, from cleanup_on_shutdown or by a caller of the class.
C3_FinalizeCalled ==
  \/ /\ pc = "finalize_session" /\ pc' \in {"sleep", "done"}
     /\ finalize_session /\ collect_meter_data
  \/ /\ pc = "cleanup_on_shutdown" /\ pc' = "done"
     /\ collect_meter_data
  \/ /\ pc = "idle" /\ pc' = "idle" /\ today' = today

\* The call was a no-op: it returned None, renamed nothing and left every
\* meter file and the rotation state as they were (cleanup_on_shutdown, which
\* makes the call, has closed the power file before).
C3_NoOp ==
  /\ prochist'.fin \in {None, "again"}
  /\ session_files' = session_files
  /\ final_files' = final_files
  /\ session_meter_file' = session_meter_file
  /\ session_start_date' = session_start_date
  /\ pc # "cleanup_on_shutdown" =>
       UNCHANGED <<power_files, current_csv_file, current_date>>

\* C3 (as claimed): finalize is a no-op when no session file was ever created
\* by this process, and when it is called a second time after a successful
\* finalize.
C3_NoOpWithoutOwnSession ==
  [][(C3_FinalizeCalled /\ (~prochist.opened \/ prochist.fin \in {"final", "again"}))
       => C3_NoOp]_vars

\* C3 (amended): finalize is a no-op when the process has no session start
\* date (it attempted no meter write), when no provisional file named by the
\* session start date exists, and when it is called a second time after a
\* successful finalize: it raises no error, renames nothing and leaves every
\* meter file and the rotation state unchanged.
C3_NoOpWithoutProvisionalFile ==
  [][(C3_FinalizeCalled /\ (\/ session_start_date = NoDate
                            \/ ~session_files[session_start_date].exists
                            \/ prochist.fin \in {"final", "again"}))
       => C3_NoOp]_vars

\* C3 witness: finalize was called again after a successful finalize and
\* returned None; the final file is there.
C3_Witness ==
  /\ prochist.fin = "again"
  /\ session_start_date # NoDate
  /\ session_meter_file = NoHandle
  /\ \E e \in Days : /\ final_files[<<session_start_date, e>>].exists
                     /\ final_files[<<session_start_date, e>>].rows # {}

\* A step that is a meter write on an open session: the call of
\* save_meter_data_to_session_csv returns with the handle open before and
\* after.
C4_WriteOnOpenSession ==
  /\ pc = "save_meter_data_to_session_csv" /\ pc' = "finalize_session"
  /\ session_meter_file.ref = "open"

\* C4: between the first meter write of a process and finalize every meter
\* write appends to the one session file opened by the first write, whatever
\* the calendar date has become; while the session is open neither the
\* session file's name nor the session start date changes.
C4_OneSessionFile ==
  [][/\ (session_meter_file.ref = "open" /\ session_meter_file'.ref = "open") =>
          /\ session_meter_file'.name = session_meter_file.name
          /\ session_start_date' = session_start_date
          /\ session_meter_file.name = session_start_date
     /\ C4_WriteOnOpenSession =>
          LET S == session_meter_file.name
          IN /\ session_meter_file'.ref = "open"
             /\ \A s \in Days \ {S} : session_files'[s] = session_files[s]
             /\ SessionContent(S).rows \subseteq SessionContent(S)'.rows
             /\ SessionContent(S)'.rows \subseteq
                  SessionContent(S).rows
                    \cup {[cyc |-> cycle, date |-> meter_data.collection_date]}
             /\ SessionContent(S)'.hdr = SessionContent(S).hdr
             /\ final_files' = final_files]_vars

\* C4 witness: a session opened on day 1 is still open on day 2 and its file
\* holds a row collected on day 1 and a row collected on day 2.
C4_Witness ==
  /\ session_meter_file.ref = "open" /\ session_meter_file.name = 1
  /\ session_start_date = 1 /\ today = 2
  /\ last_meter_collection_date = 2
  /\ \E r1, r2 \in session_files[1].rows : r1.date = 1 /\ r2.date = 2
  /\ \A s \in Days \ {1} : ~session_files[s].exists

\* C5: in continuous mode the shutdown cleanup (close the power handle,
\* finalize the meter session) runs exactly once per run, whether the loop is
\* left by an interrupt or by an unexpected error; after an interrupt the
\* shutdown flag is set and no further collection cycle starts.
C5_CleanupOnce ==
  call = "continuous" =>
    /\ pc \in LoopPcs \cup {"cleanup_on_shutdown"} =>
         callhist.cleanups = 0
    /\ pc \in LoopPcs => ~callhist.interrupted /\ ~callhist.errored
    /\ pc = "cleanup_on_shutdown" => callhist.interrupted \/ callhist.errored
    /\ pc = "done" =>
         /\ callhist.cleanups = 1
         /\ callhist.interrupted \/ callhist.errored
         /\ current_csv_file.ref # "open"
         /\ collect_meter_data => session_meter_file.ref = "none"
    /\ callhist.interrupted => shutdown_requested
    /\ pc \in LoopPcs \cup {"cleanup_on_shutdown", "done"}

\* C5 witness: a continuous run that collected, was interrupted and has run
\* its cleanup.
C5_Witness ==
  /\ call = "continuous" /\ pc = "done"
  /\ callhist.interrupted /\ shutdown_requested
  /\ callhist.cleanups = 1
  /\ current_csv_file.ref = "closed"
  /\ prochist.fin = "final"

\* C6 (as claimed): an unexpected error raised inside one collection cycle of
\* continuous mode is non-fatal: the scheduler loop goes on, so the run is
\* still in its loop after the error.
C6_LoopSurvivesError ==
  (call = "continuous" /\ callhist.errored) => pc \in LoopPcs

\* C7 (as claimed): the meter gate records today as the last meter collection
\* date only when that day's meter collection succeeded: after a collection
\* that yielded no Smile data its date is not the recorded one.
C7_DateRecordedOnSuccessOnly ==
  (/\ pc = "finalize_session"
   /\ meter_data.collection_date # NoDate
   /\ meter_data.smile = None)
    => last_meter_collection_date # meter_data.collection_date

\* The rows of the running cycle for device dev, over all power files.
C10_RowsOf(dev) ==
  {r \in UNION {PowerContent(d).rows : d \in Days} : r.cyc = cycle /\ r.dev = dev}

\* C10: when every attempt of a device's fetch in a cycle fails, the
\* extraction for that device is null (the device is not in power_data), no
\* row for that device is written in that cycle, the rows of the other device
\* are still written, and no exception leaves the extraction: the cycle goes
\* on to the write or returns to the scheduler.
C10_FailedFetchSkipsDevice ==
  [][/\ (pc = "extract_power_measurements" /\ pc' = "save_to_daily_csv") =>
          /\ failed' \cap power_data'.devices = {}
          /\ power_data'.devices # {}
     /\ (pc = "extract_power_measurements" /\ ~callhist'.interrupted) =>
          /\ pc' \in {"extract_power_measurements", "save_to_daily_csv",
                      "sleep", "done"}
          /\ ~callhist'.errored
     /\ (pc = "save_to_daily_csv" /\ pc' = "should_collect_meter_data_today") =>
          /\ \A dev \in failed : C10_RowsOf(dev)' = {}
          /\ \A dev \in power_data.devices : C10_RowsOf(dev)' # {}
          /\ failed' = failed]_vars

\* C10 witness: in the second cycle of a continuous run the Smile's fetch
\* failed on every attempt; the power write is over, the Stretch's rows of the
\* cycle are in today's file and no Smile row of the cycle is.
C10_Witness ==
  /\ call = "continuous" /\ cycle = 2
  /\ pc = "should_collect_meter_data_today"
  /\ failed = {"smile"}
  /\ \E r \in PowerContent(today).rows : r.cyc = cycle /\ r.dev = "stretch"
  /\ C10_RowsOf("smile") = {}

\* The persistence calls of a collection cycle.
C11_PersistPcs ==
  {"save_to_daily_csv", "save_meter_data_to_session_csv", "finalize_session"}

\* C11 (as claimed): a failure while opening or writing the daily power CSV or
\* the meter session CSV, or while renaming the session file at finalize, is
\* reported to the caller and never leaves the call as an exception: in
\* continuous mode a persistence step goes on within the loop unless the
\* process is interrupted.
C11_PersistenceFailureContained ==
  [][(call = "continuous" /\ pc \in C11_PersistPcs /\ ~callhist'.interrupted)
       => (pc' \in LoopPcs /\ ~callhist'.errored)]_vars

\* ------------------------------------------------ the Smile extractors alone
\* A measurement that the document does not hold (no measurement element of
\* that tariff, or one without text).
Absent == -1
\* A measurement whose text is not a number: float(measurement.text) raises
\* ValueError.
NotANumber == -2

\* The Smile documents, by what the extractors read in them:
\*   home          the location with the Home id is there
\*   wlog          the point_log of type electricity_consumed in W: none, one
\*                 without a period, or one with a period
\*   peak_w, offpeak_w   its nl_peak and nl_offpeak measurements
\*   cons_*, prod_*      the nl_peak and nl_offpeak measurements of the
\*                 cumulative logs electricity_consumed and electricity_produced
\*   gas           the measurement of the cumulative log gas_consumed
\* Each measurement is absent, a number or a text that is not a number.
SmileDocs ==
  {d \in [kind : {"smile"}, home : BOOLEAN, wlog : {"none", "noperiod", "period"},
          peak_w : {Absent, NotANumber} \cup (0..MaxWatts),
          offpeak_w : {Absent, NotANumber} \cup (0..MaxWatts),
          cons_peak : {Absent, NotANumber} \cup (0..MaxKwh),
          cons_offpeak : {Absent, NotANumber} \cup (0..MaxKwh),
          prod_peak : {Absent, NotANumber} \cup (0..MaxKwh),
          prod_offpeak : {Absent, NotANumber} \cup (0..MaxKwh),
          gas : {Absent, NotANumber, 1}] :
     d.wlog # "period" => (d.peak_w = Absent /\ d.offpeak_w = Absent)}

\* The measurements extract_smile_power converts with float(): those of the
\* W point log and those of the cumulative logs.
PowerPathMeasurements(d) ==
  {d.peak_w, d.offpeak_w, d.cons_peak, d.cons_offpeak, d.prod_peak,
   d.prod_offpeak, d.gas}
\* The measurements extract_smile_meter_data converts: those of the
\* cumulative logs.
MeterPathMeasurements(d) ==
  {d.cons_peak, d.cons_offpeak, d.prod_peak, d.prod_offpeak, d.gas}

\* A conversion that lets a text that is not a number through (a variant of
\* FloatRaises used to test C21).
FloatRaisesNever(measurements) == FALSE

\* One of the float(measurement.text) calls raises ValueError, which the
\* extractor's except clause catches.
FloatRaises(measurements) == NotANumber \in measurements

\* What an extractor returns when it returns None.
NoSnapshot == [done |-> TRUE, ok |-> FALSE]

\* A measurement's value where the code starts from 0 and adds or assigns only
\* what is present.
ValueOrZero(v) == IF v = Absent THEN 0 ELSE v

\* extract_smile_power's active tariff, from the peak and offpeak power.
ActiveTariff(peak_power, offpeak_power) ==
  IF peak_power > 0 /\ offpeak_power = 0 THEN "peak"
  ELSE IF offpeak_power > 0 /\ peak_power = 0 THEN "off-peak"
  ELSE IF peak_power > 0 /\ offpeak_power > 0 THEN "both"
  ELSE "none"

\* extract_smile_power's net consumption: a side counts only when both its
\* tariff values are in meter_data.
NetSide(high, low) ==
  IF high # Absent /\ low # Absent THEN high + low ELSE 0

\* extract_smile_power, on a fetched document d.
extract_smile_power(d) ==
  IF ~d.home THEN NoSnapshot
  ELSE IF FloatRaises(PowerPathMeasurements(d)) THEN NoSnapshot
  ELSE LET peak_power == ValueOrZero(d.peak_w)
           offpeak_power == ValueOrZero(d.offpeak_w)
       IN [done |-> TRUE, ok |-> TRUE,
           total_watts |-> peak_power + offpeak_power,
           peak_watts |-> peak_power,
           offpeak_watts |-> offpeak_power,
           active_tariff |-> IF d.wlog = "period"
                               THEN ActiveTariff(peak_power, offpeak_power)
                               ELSE None,
           usage_high |-> d.cons_peak,
           usage_low |-> d.cons_offpeak,
           production_high |-> d.prod_peak,
           production_low |-> d.prod_offpeak,
           gas |-> d.gas,
           net_consumption |-> NetSide(d.cons_peak, d.cons_offpeak)
                                 - NetSide(d.prod_peak, d.prod_offpeak)]

\* A total that counts a side only when both tariff values are present (a
\* variant of MeterTotal used to test C12).
MeterTotalBothOnly(peak, offpeak) ==
  IF peak # Absent /\ offpeak # Absent THEN peak + offpeak ELSE 0

\* extract_smile_meter_data's totals: each tariff value that is in meter_data
\* is added.
MeterTotal(peak, offpeak) == ValueOrZero(peak) + ValueOrZero(offpeak)

\* extract_smile_meter_data, on a fetched document d.
extract_smile_meter_data(d) ==
  IF ~d.home THEN NoSnapshot
  ELSE IF FloatRaises(MeterPathMeasurements(d)) THEN NoSnapshot
  ELSE LET total_consumed == MeterTotal(d.cons_peak, d.cons_offpeak)
           total_produced == MeterTotal(d.prod_peak, d.prod_offpeak)
       IN [done |-> TRUE, ok |-> TRUE,
           electricity_consumed_peak |-> d.cons_peak,
           electricity_consumed_offpeak |-> d.cons_offpeak,
           electricity_produced_peak |-> d.prod_peak,
           electricity_produced_offpeak |-> d.prod_offpeak,
           gas_consumed |-> d.gas,
           electricity_total_consumed |-> total_consumed,
           electricity_total_produced |-> total_produced,
           electricity_net_consumed |-> total_consumed - total_produced]

InitSmile ==
  /\ InitCollector
  /\ collect_meter_data = TRUE
  /\ f_in = NoFetch
  /\ f_out = NotFetched
  /\ doc \in SmileDocs
  /\ extracted = NotExtracted

\* What the callers' tests `if smile_data:` see of an extractor's result r: a
\* snapshot is a non-empty dict.
SmileData(r) == IF r.ok THEN "data" ELSE None

\* Both extractors are given the document; power_devices is what
\* extract_power_measurements then stores and save_to_daily_csv makes rows of,
\* meter_devices what collect_daily_meter_data stores.
ExtractSmile ==
  /\ extracted = NotExtracted
  /\ extracted' =
       [done |-> TRUE, power |-> extract_smile_power(doc),
        meter |-> extract_smile_meter_data(doc),
        power_rows |-> CsvData(StoreDevice([NoPowerData EXCEPT !.timestamp = today],
                                           "smile",
                                           SmileData(extract_smile_power(doc))), 1),
        meter_devices |-> StoreDevice(NoPowerData, "smile",
                            SmileData(extract_smile_meter_data(doc))).devices]
  /\ UNCHANGED <<today, fsVars, objVars, pc, call, localVars, cycle, histVars,
                 requested, fetchVars, doc>>

SpecSmile == InitSmile /\ [][ExtractSmile]_vars

\* C12: for every combination of present and absent peak and offpeak values in
\* the cumulative logs electricity_consumed and electricity_produced the meter
\* snapshot has electricity_total_consumed = consumed peak + consumed offpeak,
\* electricity_total_produced = produced peak + produced offpeak and
\* electricity_net_consumed = total consumed - total produced, an absent
\* value counting as 0.
C12_MeterTotals ==
  (extracted.done /\ extracted.meter.ok) =>
    LET m == extracted.meter
        Z(v) == IF v = Absent THEN 0 ELSE v
    IN /\ m.electricity_total_consumed = Z(doc.cons_peak) + Z(doc.cons_offpeak)
       /\ m.electricity_total_produced = Z(doc.prod_peak) + Z(doc.prod_offpeak)
       /\ m.electricity_net_consumed =
            m.electricity_total_consumed - m.electricity_total_produced
       /\ m.gas_consumed = doc.gas

\* C12 witness: consumed peak 2 and offpeak 1, produced peak 1 only and gas
\* give the totals 3 and 1 and the net consumption 2.
C12_Witness ==
  /\ extracted.done /\ extracted.meter.ok
  /\ doc.cons_peak = 2 /\ doc.cons_offpeak = 1
  /\ doc.prod_peak = 1 /\ doc.prod_offpeak = Absent
  /\ doc.gas = 1
  /\ extracted.meter.electricity_total_consumed = 3
  /\ extracted.meter.electricity_total_produced = 1
  /\ extracted.meter.electricity_net_consumed = 2

\* C13 (as claimed): the net consumption of the power-path extraction and
\* that of the meter snapshot both equal (consumed peak + consumed offpeak) -
\* (produced peak + produced offpeak) with a missing value as zero, so the two
\* extractors agree on every document.
C13_NetConsumptionAgrees ==
  (extracted.done /\ extracted.power.ok /\ extracted.meter.ok) =>
    LET Z(v) == IF v = Absent THEN 0 ELSE v
        net == (Z(doc.cons_peak) + Z(doc.cons_offpeak))
                 - (Z(doc.prod_peak) + Z(doc.prod_offpeak))
    IN /\ extracted.power.net_consumption = net
       /\ extracted.meter.electricity_net_consumed = net

\* C19 (as claimed): in every snapshot the Smile power extractor returns,
\* active_tariff is peak, off-peak, both or none, by the peak and offpeak
\* power alone: also when the document has no electricity_consumed point-log
\* in W or the log has no period.
C19_ActiveTariffDerived ==
  (extracted.done /\ extracted.power.ok) =>
    LET p == extracted.power IN
      /\ p.active_tariff \in {"peak", "off-peak", "both", "none"}
      /\ p.active_tariff = "peak" <=> (p.peak_watts > 0 /\ p.offpeak_watts = 0)
      /\ p.active_tariff = "off-peak" <=> (p.offpeak_watts > 0 /\ p.peak_watts = 0)
      /\ p.active_tariff = "both" <=> (p.peak_watts > 0 /\ p.offpeak_watts > 0)
      /\ p.active_tariff = "none" <=> (p.peak_watts = 0 /\ p.offpeak_watts = 0)

\* --------------------------------------------- the Stretch extractor alone
\* The characters of a measurement text: a digit, the point, the minus sign
\* and any other character.
Chars == {"1", ".", "-", "x"}
Digits == {"1"}
Texts == UNION {[1..n -> Chars] : n \in 0..MaxText}

\* The point meters of a modules document, in document order; each is in the
\* appliance mapping and has one consumed measurement.
PointMeters == <<"m1", "m2">>

\* The modules documents: the text of each point meter's measurement, and
\* whether the appliances of the two meters have the same name in the
\* appliance mapping.
StretchDocs == [kind : {"stretch"}, m1 : Texts, m2 : Texts, same_name : BOOLEAN]

\* The appliance names of the mapping.
StretchNames == {"Unknown", "Lamp", "Fridge"}

\* appliance_name = self.appliance_mapping[meter_id]['appliance_name']
ApplianceNameOf(d, m) ==
  IF d.same_name THEN "Unknown" ELSE IF m = "m1" THEN "Lamp" ELSE "Fridge"

\* str.isdigit(): not empty and digits only.
IsDigit(text) == Len(text) > 0 /\ \A i \in 1..Len(text) : text[i] \in Digits

\* text.replace('.', '').replace('-', '')
WithoutPointAndMinus(text) ==
  LET Keep(c) == c \notin {".", "-"} IN SelectSeq(text, Keep)

\* float(text) succeeds: an optional leading minus sign, then digits with at
\* most one point among them and at least one digit.
FloatParses(text) ==
  LET body == IF Len(text) > 0 /\ text[1] = "-" THEN Tail(text) ELSE text
      IsPoint(c) == c = "."
  IN /\ \A i \in 1..Len(body) : body[i] \in Digits \cup {"."}
     /\ Len(SelectSeq(body, IsPoint)) <= 1
     /\ \E i \in 1..Len(body) : body[i] \in Digits

\* power_value = measurement.text.strip() if measurement.text else '0'
\* (the one digit of Digits stands for any digit; the text '0' reads as 0.0).
PowerValue(text) == IF text = <<>> THEN <<"1">> ELSE text

\* float(power_value) if power_value.replace(...).isdigit() else 0.0
\* what: zero (the 0.0 of the else branch), float (the parsed text) or raises
\* (float's ValueError).
PowerWatts(text) ==
  LET power_value == PowerValue(text) IN
  IF IsDigit(WithoutPointAndMinus(power_value))
    THEN IF FloatParses(power_value)
           THEN [what |-> IF text = <<>> THEN "zero" ELSE "float", text |-> text]
           ELSE [what |-> "raises", text |-> text]
    ELSE [what |-> "zero", text |-> text]

\* A name power_data has no entry for.
NoReading == [what |-> "missing", text |-> <<>>, meter_id |-> None]

\* extract_stretch_power's loop over the point meters from the i-th on; acc is
\* power_data so far; power_data[appliance_name] = {...} stores a reading
\* under its appliance's name.  An exception ends the loop: the except clause
\* prints it and power_data is returned as it is.
RECURSIVE StretchReadings(_, _, _)
StretchReadings(d, i, acc) ==
  IF i > Len(PointMeters) THEN acc
  ELSE LET m == PointMeters[i]
           w == PowerWatts(d[m])
       IN IF w.what = "raises" THEN acc
          ELSE StretchReadings(d, i + 1,
                 [acc EXCEPT ![ApplianceNameOf(d, m)] =
                    [what |-> w.what, text |-> w.text, meter_id |-> m]])

InitStretch ==
  /\ InitCollector
  /\ collect_meter_data = TRUE
  /\ f_in = NoFetch
  /\ f_out = NotFetched
  /\ doc \in StretchDocs
  /\ extracted = NotExtracted

\* extract_stretch_power is given the document.
ExtractStretch ==
  /\ extracted = NotExtracted
  /\ extracted' = [done |-> TRUE,
                   power_data |-> StretchReadings(doc, 1,
                                    [n \in StretchNames |-> NoReading])]
  /\ UNCHANGED <<today, fsVars, objVars, pc, call, localVars, cycle, histVars,
                 requested, fetchVars, doc>>

SpecStretch == InitStretch /\ [][ExtractStretch]_vars

\* A signed decimal: an optional minus sign, digits, at most one point.
C14_ValidDecimal(text) ==
  LET body == IF Len(text) > 0 /\ text[1] = "-" THEN Tail(text) ELSE text
  IN /\ Len(body) > 0
     /\ \A i \in 1..Len(body) : body[i] \in {"1", "."}
     /\ Cardinality({i \in 1..Len(body) : body[i] = "."}) <= 1
     /\ \E i \in 1..Len(body) : body[i] = "1"

\* The reading of point meter m in the extractor's result.
C14_ReadingOf(m) ==
  LET r == extracted.power_data[ApplianceNameOf(doc, m)]
  IN IF r.meter_id = m THEN r ELSE NoReading

\* C14 (as claimed): for every measurement text that is not a valid signed
\* decimal the Stretch extractor yields power_watts = 0.0 for that reading and
\* does not throw, and the readings of the other point meters of the document
\* are still extracted (the meters' appliances having names of their own).
C14_MalformedTextYieldsZero ==
  (extracted.done /\ ~doc.same_name) =>
    \A i \in 1..Len(PointMeters) :
      LET m == PointMeters[i] IN
        /\ C14_ReadingOf(m).what # "missing"
        /\ ~C14_ValidDecimal(doc[m]) => C14_ReadingOf(m).what = "zero"

\* ------------------------------------------- the appliance mapping alone
\* The name element of an appliance: missing, without text, with blanks only
\* as text, or with a name.
NameElems == {"missing", "empty", "blank", "Lamp"}
\* A service of an appliance: its tag and its id attribute.
ServiceTags == {"electricity_point_meter", "relay"}
ServiceIds == {"s1", "s2"}
Services == [tag : ServiceTags, id : ServiceIds]
ServiceLists == UNION {[1..n -> Services] : n \in 0..2}
Appliances == [name : NameElems, services : ServiceLists]

\* The appliance registry documents: the appliances in document order.
ApplianceTrees ==
  [kind : {"appliances"}, appliances : [1..MaxAppliances -> Appliances]]

\* name = name_elem.text.strip() if name_elem is not None and name_elem.text
\*        else 'Unknown'
ApplianceName(name_elem) ==
  IF name_elem \in {"missing", "empty"} THEN "Unknown"
  ELSE IF name_elem = "blank" THEN ""
  ELSE name_elem

\* A test that takes every service for a point meter (a variant of
\* IsPointMeter used to test C15).
IsAnyService(service) == service.tag \in ServiceTags

\* if service_type == 'electricity_point_meter'
IsPointMeter(service) == service.tag = "electricity_point_meter"

Unmapped == "unmapped"

\* build_appliance_mapping's inner loop: the services of one appliance from
\* the j-th on; mapping[service_id] is assigned for each point meter.
RECURSIVE MapServices(_, _, _, _)
MapServices(mapping, name, services, j) ==
  IF j > Len(services) THEN mapping
  ELSE MapServices(IF IsPointMeter(services[j])
                     THEN [mapping EXCEPT ![services[j].id] = name]
                     ELSE mapping,
                   name, services, j + 1)

\* build_appliance_mapping's outer loop: the appliances from the i-th on.
RECURSIVE MapAppliances(_, _, _)
MapAppliances(mapping, appliances, i) ==
  IF i > Len(appliances) THEN mapping
  ELSE MapAppliances(MapServices(mapping, ApplianceName(appliances[i].name),
                                 appliances[i].services, 1),
                     appliances, i + 1)

\* The mapping build_appliance_mapping returns for a fetched registry: the
\* appliance name by service id.
ApplianceMapping(d) ==
  MapAppliances([id \in ServiceIds |-> Unmapped], d.appliances, 1)

InitMapping ==
  /\ InitCollector
  /\ collect_meter_data = TRUE
  /\ f_in = NoFetch
  /\ f_out = NotFetched
  /\ doc \in ApplianceTrees
  /\ extracted = NotExtracted

\* build_appliance_mapping is given the document.
BuildApplianceMapping ==
  /\ extracted = NotExtracted
  /\ extracted' = [done |-> TRUE, mapping |-> ApplianceMapping(doc)]
  /\ UNCHANGED <<today, fsVars, objVars, pc, call, localVars, cycle, histVars,
                 requested, fetchVars, doc>>

SpecMapping == InitMapping /\ [][BuildApplianceMapping]_vars

\* The point-meter services of the i-th appliance of the document (their
\* places in its service list) and the appliances with exactly one.
C15_PointMeters(i) ==
  {j \in 1..Len(doc.appliances[i].services) :
     doc.appliances[i].services[j].tag = "electricity_point_meter"}
C15_WithOne ==
  {i \in 1..Len(doc.appliances) : Cardinality(C15_PointMeters(i)) = 1}
C15_IdOf(i) ==
  doc.appliances[i].services[CHOOSE j \in C15_PointMeters(i) : TRUE].id
C15_Entries == {id \in ServiceIds : extracted.mapping[id] # Unmapped}

\* C15: the mapping has one entry per point-meter service id of the document.
\* Built from a tree in which each appliance exposes exactly one point meter
\* (with its own id) or none, it has exactly as many entries as there are
\* appliances with a point meter, an appliance without one contributing none;
\* an appliance whose name is missing or empty is entered as 'Unknown'.
C15_MappingEntries ==
  extracted.done =>
    /\ C15_Entries =
         {doc.appliances[i].services[j].id :
            <<i, j>> \in {ij \in (1..MaxAppliances) \X (1..2) :
                            ij[2] \in C15_PointMeters(ij[1])}}
    /\ (/\ \A i \in 1..Len(doc.appliances) : Cardinality(C15_PointMeters(i)) <= 1
        /\ \A i, k \in C15_WithOne : i # k => C15_IdOf(i) # C15_IdOf(k))
         => /\ Cardinality(C15_Entries) = Cardinality(C15_WithOne)
            /\ \A i \in C15_WithOne :
                 doc.appliances[i].name \in {"missing", "empty"}
                   => extracted.mapping[C15_IdOf(i)] = "Unknown"
            /\ \A i \in C15_WithOne :
                 doc.appliances[i].name = "Lamp"
                   => extracted.mapping[C15_IdOf(i)] = "Lamp"

\* C15 witness: two appliances with one point meter each, the first without a
\* name element and with a relay besides, give two entries, one of them named
\* Unknown.
C15_Witness ==
  /\ extracted.done
  /\ doc.appliances[1].name = "missing"
  /\ doc.appliances[1].services =
       <<[tag |-> "relay", id |-> "s2"], [tag |-> "electricity_point_meter", id |-> "s1"]>>
  /\ doc.appliances[2].name = "Lamp"
  /\ doc.appliances[2].services = <<[tag |-> "electricity_point_meter", id |-> "s2"]>>
  /\ extracted.mapping = [id \in ServiceIds |-> IF id = "s1" THEN "Unknown" ELSE "Lamp"]

\* C16 (as claimed): the provisional session file opened on the first meter
\* write is named by the date on which the process started, also when that
\* write takes place on a later date.
C16_SessionNamedByProcessStart ==
  session_meter_file.ref = "open" => session_meter_file.name = prochist.start

\* C17 (as claimed): when a write has returned, every row it wrote has been
\* flushed to the file, so no row of a completed cycle is held in a buffer
\* only, where an abrupt end of the process would lose it.
C17_WrittenRowsOnDisk ==
  /\ current_csv_file.ref = "open" =>
       current_csv_file.rows \subseteq power_files[current_csv_file.name].rows
  /\ session_meter_file.ref = "open" =>
       session_meter_file.rows \subseteq session_files[session_meter_file.name].rows

\* ---------------------------------------------------- load_config alone
\* What load_config is given: whether a configuration file is named and
\* exists, and the collection settings of its document (Absent: the key is
\* not in it); resps is what the device does on the requests of the fetch that
\* follows.
ConfigDocs ==
  [kind : {"config"}, file : BOOLEAN,
   retry_attempts : {Absent} \cup (1..MaxRetry),
   timeout : {Absent, DefaultTimeout},
   resps : RespSeqs(MaxRetry)]

\* load_config(config_file): the file's document as it is, or the default
\* configuration when there is no file.
load_config(d) ==
  IF d.file
    THEN [retry_attempts |-> d.retry_attempts, timeout |-> d.timeout]
    ELSE [retry_attempts |-> DefaultRetryAttempts, timeout |-> DefaultTimeout]

\* fetch_xml_data under configuration config.  A missing retry_attempts
\* raises KeyError where the for statement reads it; a missing timeout raises
\* KeyError inside the try of every attempt, before the request is made, and
\* is handled as a failed attempt.
FetchWithConfig(config, resps) ==
  IF config.retry_attempts = Absent
    THEN [text |-> "KeyError", log |-> <<>>]
  ELSE IF config.timeout = Absent
    THEN [text |-> None, log |-> [i \in 1..(config.retry_attempts - 1) |-> "SLEEP"]]
  ELSE fetch_xml_data(TRUE, config.retry_attempts, resps, "xml")

InitConfig ==
  /\ InitCollector
  /\ collect_meter_data = TRUE
  /\ f_in = NoFetch
  /\ f_out = NotFetched
  /\ doc \in ConfigDocs
  /\ extracted = NotExtracted

\* __init__ loads the configuration; a fetch follows.
LoadConfigAndFetch ==
  /\ extracted = NotExtracted
  /\ extracted' = [done |-> TRUE, config |-> load_config(doc),
                   fetch |-> FetchWithConfig(load_config(doc), doc.resps)]
  /\ UNCHANGED <<today, fsVars, objVars, pc, call, localVars, cycle, histVars,
                 requested, fetchVars, doc>>

SpecConfig == InitConfig /\ [][LoadConfigAndFetch]_vars

\* C18 (as claimed): when a configuration document is loaded in which
\* collection settings are absent, defaults are supplied for the absent
\* values, so that the fetch that follows works with the default
\* retry_attempts and timeout instead of failing on the missing setting.
C18_DefaultsSupplied ==
  extracted.done =>
    LET retry == IF doc.file /\ doc.retry_attempts # Absent
                   THEN doc.retry_attempts ELSE DefaultRetryAttempts
    IN /\ extracted.config.retry_attempts = retry
       /\ extracted.config.timeout = DefaultTimeout
       /\ extracted.fetch = fetch_xml_data(TRUE, retry, doc.resps, "xml")

\* C20: the appliance mapping is a cache.  Once a build has produced a
\* non-empty mapping no later cycle of the process requests /core/appliances
\* and the mapping is never modified; a cycle requests the appliance registry
\* only if the cached mapping is empty at its start.
C20_MappingIsCache ==
  [][/\ (appliance_mapping = "built" /\ pc' # "exited") =>
          appliance_mapping' = "built"
     /\ appliance_mapping' # appliance_mapping =>
          \/ pc = "extract_power_measurements" /\ appliance_mapping = "empty"
          \/ pc' = "exited"
     /\ (pc = "extract_power_measurements" /\ requested' # {}) =>
          ("/core/appliances" \in requested' <=> appliance_mapping = "empty")]_vars

\* C20 witness: the second cycle of a continuous run has extracted with the
\* mapping built in the first cycle and has not requested /core/appliances.
C20_Witness ==
  /\ call = "continuous" /\ cycle = 2
  /\ pc = "save_to_daily_csv"
  /\ appliance_mapping = "built"
  /\ requested = {"/core/modules", "/core/domain_objects"}
  /\ "stretch" \in power_data.devices

\* C21: Smile extraction is all-or-nothing.  When the Home location is
\* missing, or a measurement the extractor converts is not a number (the
\* conversion raises), the extractor returns None: no field of a snapshot, and
\* no power row and no meter entry made from the document.  Otherwise it
\* returns the whole snapshot.
C21_SmileAllOrNothing ==
  extracted.done =>
    LET bad_power == ~doc.home \/ NotANumber \in PowerPathMeasurements(doc)
        bad_meter == ~doc.home \/ NotANumber \in MeterPathMeasurements(doc)
    IN /\ bad_power => /\ extracted.power = NoSnapshot
                       /\ extracted.power_rows = {}
       /\ bad_meter => /\ extracted.meter = NoSnapshot
                       /\ extracted.meter_devices = {}
       /\ ~bad_power => /\ extracted.power.ok
                        /\ extracted.power_rows # {}
                        /\ NotANumber \notin
                             {extracted.power.usage_high, extracted.power.usage_low,
                              extracted.power.production_high,
                              extracted.power.production_low, extracted.power.gas}
       /\ ~bad_meter => extracted.meter.ok /\ extracted.meter_devices = {"smile"}

\* C21 witness: a document with the Home location whose produced offpeak
\* value alone is not a number, all other measurements being numbers; both
\* extractors returned None.
C21_Witness ==
  /\ extracted.done
  /\ doc.home /\ doc.wlog = "period"
  /\ doc.peak_w = 1 /\ doc.offpeak_w = 0
  /\ doc.cons_peak = 2 /\ doc.cons_offpeak = 1 /\ doc.prod_peak = 1
  /\ doc.prod_offpeak = NotANumber /\ doc.gas = 1
  /\ extracted.power = NoSnapshot /\ extracted.meter = NoSnapshot
  /\ extracted.power_rows = {} /\ extracted.meter_devices = {}

\* C22 (as claimed): when an exception is raised while a point meter of the
\* document is processed, the Stretch extractor returns no reading at all:
\* never the readings of the meters processed before the error.
C22_NoPartialReadings ==
  (extracted.done /\ \E i \in 1..Len(PointMeters) :
                       PowerWatts(doc[PointMeters[i]]).what = "raises")
    => \A n \in StretchNames : extracted.power_data[n] = NoReading

\* C23 (as claimed): with meter collection enabled the date comparison is the
\* only gate on a cycle's meter collection: a cycle on a date for which no
\* meter data was collected does not return to the scheduler from its power
\* extraction, it goes on to the meter collection also when the extraction
\* yielded no data from any device.
C23_MeterGateIsDateOnly ==
  [][(/\ pc = "extract_power_measurements"
      /\ collect_meter_data
      /\ ShouldCollectMeter(last_meter_collection_date, today)
      /\ ~callhist'.interrupted)
       => pc' \notin {"sleep", "done"}]_vars

\* The meter rows the running process has written, in the provisional and the
\* final meter files.
C24_RowsOfProcess ==
  {r \in UNION ({SessionContent(d).rows : d \in Days}
                  \cup {final_files[se].rows : se \in Days \X Days}) :
     r.cyc > prochist.base}

\* C24 (as claimed): within one process run (the calendar date never goes
\* backwards) the meter files receive at most one row per calendar date,
\* however many cycles run on that date.
C24_OneMeterRowPerDate ==
  \A r1, r2 \in C24_RowsOfProcess : r1.date = r2.date => r1 = r2

\* C25 (as claimed): finalized is a terminal state of the meter session.
\* Once finalize has renamed the session file, no later operation of the same
\* collector opens or creates a provisional session file, and the final files
\* are not written again.
C25_FinalizedIsTerminal ==
  [][prochist.fin \in {"final", "again"} =>
       /\ session_meter_file'.ref = "none"
       /\ \A s \in Days : session_files'[s].exists => session_files[s].exists
       /\ final_files' = final_files]_vars

\* C26 (as claimed): on every exit route of a run (single-shot or continuous;
\* completed, interrupted or errored) the teardown has closed every output
\* handle the run opened and finalized the provisional session file it
\* created: when the run is over no power CSV handle and no session handle is
\* open.
C26_HandlesReleasedOnExit ==
  pc \in {"done", "uncaught"} =>
    /\ current_csv_file.ref # "open"
    /\ session_meter_file.ref # "open"

\* C27 (as claimed): every row of the daily power file power_usage_D.csv
\* carries a collection timestamp whose calendar date is D, for every
\* interleaving of extraction, date change and write.
C27_RowDateIsFileDate ==
  \A d \in Days : \A r \in PowerContent(d).rows : r.ts = d

\* C28 (as claimed): finalize never destroys earlier data.  When a final
\* file meter_readings_S_E.csv exists, no step (finalizing another session
\* with the same S and E included) removes a row from it, for any sequence of
\* runs.
C28_FinalRowsKept ==
  [][\A se \in Days \X Days :
       final_files[se].rows \subseteq final_files'[se].rows]_vars

\* C29 (as claimed): the power rotation state is consistent in every
\* reachable state: whenever current_csv_file is not None and current_date is
\* today, the file object is open, so that a power write (also one of a cycle
\* run on the same date after cleanup_on_shutdown) is never made on a closed
\* file object.
C29_PowerHandleOpen ==
  (current_csv_file.ref # "none" /\ current_date = today)
    => current_csv_file.ref = "open"

\* C30 (as claimed): a Stretch extraction (none of whose conversions raises)
\* returns one reading for each point meter of the document that resolves
\* through the appliance mapping and has a consumed measurement, made from
\* that meter's measurement; no meter's reading is lost or replaced by
\* another meter's, also when two meters belong to appliances with the same
\* name.
C30_OneReadingPerMeter ==
  (extracted.done /\ \A i \in 1..Len(PointMeters) :
                       PowerWatts(doc[PointMeters[i]]).what # "raises")
    => \A i \in 1..Len(PointMeters) :
         /\ C14_ReadingOf(PointMeters[i]).what # "missing"
         /\ C14_ReadingOf(PointMeters[i]).text = doc[PointMeters[i]]

====
